---- MODULE Spec2Model ----
(***************************************************************************)
(* A model of src/main.py: the project store (one SQLite table behind four *)
(* REST handlers), the /generate handler over the remote completion API,   *)
(* and the Telegram webhook handler with its background dispatch task.     *)
(*                                                                         *)
(* Every handler is one action.  A handler's inputs (request fields, the   *)
(* reply of the remote API, whether the storage engine answers) are drawn  *)
(* with \E from small sets.  `resp` holds the last request and what the    *)
(* handler returned for it.                                                *)
(***************************************************************************)
EXTENDS Integers, Sequences, FiniteSets, TLC

\* ------------------------------------------------------------------ bounds
MaxSaves == 2
MaxClock == 1
MaxUpdates == 2
MaxTextLen == 2

\* ------------------------------------------------------- program constants
HTTP_OK == 200
HTTP_FORBIDDEN == 403

\* ------------------------------------------------------------ input values
Users == {1, 2}
Titles == {"calc", ""}
Tasks == {"build a calculator"}
Codes == {"print(1+1)"}
ProjectIds == 1..(MaxSaves + 1)
Chars == {" ", "x"}
Texts == UNION {[1..k -> Chars] : k \in 0..MaxTextLen}
StatusCodes == {HTTP_OK, 429, 500}

\* Python's None and str values, kept apart: None is not the empty string.
PyNone == [isNone |-> TRUE, str |-> ""]
PyStr(s) == [isNone |-> FALSE, str |-> s]
SecretValues == {PyNone, PyStr(""), PyStr("s3cr3t")}

VARIABLES
    projects,         \* the rows of table `projects`
    sqlite_sequence,  \* AUTOINCREMENT's record of the largest id ever given
    now,              \* CURRENT_TIMESTAMP, in whole seconds
    saved,            \* history: the successful inserts, in order, with their ids
    resp,             \* the last request handled and the value returned for it
    llm_calls,        \* the system prompts of the completion calls of the last /generate
    WEBHOOK_SECRET,   \* os.getenv("WEBHOOK_SECRET"), read once at start
    webhook_log,      \* history: every /webhook request, with how it was answered
    tasks,            \* background tasks created by the webhook and still running
    finished          \* background tasks that ended, with how they ended

vars == <<projects, sqlite_sequence, now, saved, resp, llm_calls,
          WEBHOOK_SECRET, webhook_log, tasks, finished>>

storeVars == <<projects, sqlite_sequence, now, saved>>
botVars == <<webhook_log, tasks, finished>>

\* ------------------------------------------------------------------- store

MaxOf(S) == IF S = {} THEN 0 ELSE CHOOSE m \in S : \A x \in S : x <= m

RowIds(rows) == {r.id : r \in rows}

\* A table declared without AUTOINCREMENT: the next rowid is one more than
\* the largest rowid now in the table.
NextIdRowid(rows, seq) == MaxOf(RowIds(rows)) + 1

\* id INTEGER PRIMARY KEY AUTOINCREMENT: one more than the largest id the
\* table has ever held.
NextId(rows, seq) == MaxOf(RowIds(rows) \cup {seq}) + 1

\* INSERT INTO projects (user_id, title, task, code); id and created_at are
\* filled in by the engine.
InsertRow(id, user_id, title, task, code, ts) ==
    [id |-> id, user_id |-> user_id, title |-> title, task |-> task,
     code |-> code, created_at |-> ts]

\* DELETE ... WHERE id=? (the owner is not compared).
DeleteWhereIdOnly(rows, project_id, user_id) ==
    {r \in rows : r.id # project_id}

\* DELETE ... WHERE user_id=? (the id is not compared).
DeleteWhereOwnerOnly(rows, project_id, user_id) ==
    {r \in rows : r.user_id # user_id}

\* DELETE FROM projects WHERE id=? AND user_id=?
DeleteWhere(rows, project_id, user_id) ==
    {r \in rows : ~(r.id = project_id /\ r.user_id = user_id)}

\* SELECT ... WHERE user_id=?
SelectByUser(rows, user_id) == {r \in rows : r.user_id = user_id}

\* ORDER BY created_at DESC: every order of the rows in which created_at
\* never increases.  Rows of one second may come in any order.
OrderByCreatedAtDesc(rows) ==
    {s \in [1..Cardinality(rows) -> rows] :
        /\ \A i, j \in DOMAIN s : i # j => s[i] # s[j]
        /\ \A i, j \in DOMAIN s : i < j => s[i].created_at >= s[j].created_at}

\* [{"id": r[0], "title": r[1]} for r in rows]
ListItems(s) == [i \in DOMAIN s |-> [id |-> s[i].id, title |-> s[i].title]]

\* The columns read back in the wrong places.
GetBodySwapped(r) == [title |-> r.title, task |-> r.code, code |-> r.task]

\* {"title": r[0], "task": r[1], "code": r[2]} of SELECT title, task, code
GetBody(r) == [title |-> r.title, task |-> r.task, code |-> r.code]

\* What get_project returns when the storage engine answers.
GetResponse(rows, project_id) ==
    IF \E r \in rows : r.id = project_id
    THEN GetBody(CHOOSE r \in rows : r.id = project_id)
    ELSE [error |-> "Project not found"]

save_project ==
    \E user_id \in Users, title \in Titles, task \in Tasks, code \in Codes,
       dbok \in BOOLEAN :
        LET req == [user_id |-> user_id, title |-> title, task |-> task, code |-> code]
            id == NextId(projects, sqlite_sequence)
        IN  /\ Len(saved) < MaxSaves
            /\ IF dbok
               THEN /\ projects' = projects \cup
                            {InsertRow(id, user_id, title, task, code, now)}
                    /\ sqlite_sequence' = id
                    /\ saved' = Append(saved, [id |-> id, user_id |-> user_id,
                                               title |-> title, task |-> task,
                                               code |-> code])
                    /\ resp' = [op |-> "save", req |-> req, fault |-> FALSE,
                                body |-> [status |-> "ok"]]
               ELSE /\ UNCHANGED <<projects, sqlite_sequence, saved>>
                    /\ resp' = [op |-> "save", req |-> req, fault |-> TRUE,
                                body |-> [error |-> "Failed to save project"]]
            /\ UNCHANGED <<now, llm_calls, WEBHOOK_SECRET, botVars>>

list_projects ==
    \E user_id \in Users, dbok \in BOOLEAN :
        /\ IF dbok
           THEN \E s \in OrderByCreatedAtDesc(SelectByUser(projects, user_id)) :
                    resp' = [op |-> "list", req |-> [user_id |-> user_id],
                             fault |-> FALSE, body |-> [items |-> ListItems(s)]]
           ELSE resp' = [op |-> "list", req |-> [user_id |-> user_id],
                         fault |-> TRUE, body |-> [items |-> <<>>]]
        /\ UNCHANGED <<storeVars, llm_calls, WEBHOOK_SECRET, botVars>>

get_project ==
    \E project_id \in ProjectIds, dbok \in BOOLEAN :
        /\ resp' = [op |-> "get", req |-> [project_id |-> project_id],
                    fault |-> ~dbok,
                    body |-> IF dbok THEN GetResponse(projects, project_id)
                             ELSE [error |-> "Failed to load project"]]
        /\ UNCHANGED <<storeVars, llm_calls, WEBHOOK_SECRET, botVars>>

delete_project ==
    \E user_id \in Users, project_id \in ProjectIds, dbok \in BOOLEAN :
        LET req == [user_id |-> user_id, project_id |-> project_id]
        IN  /\ IF dbok
               THEN /\ projects' = DeleteWhere(projects, project_id, user_id)
                    /\ resp' = [op |-> "delete", req |-> req, fault |-> FALSE,
                                body |-> [status |-> "deleted"]]
               ELSE /\ UNCHANGED projects
                    /\ resp' = [op |-> "delete", req |-> req, fault |-> TRUE,
                                body |-> [error |-> "Failed to delete project"]]
            /\ UNCHANGED <<sqlite_sequence, now, saved, llm_calls,
                           WEBHOOK_SECRET, botVars>>

\* A second of wall-clock time passes.
Tick ==
    /\ now < MaxClock
    /\ now' = now + 1
    /\ UNCHANGED <<projects, sqlite_sequence, saved, resp, llm_calls,
                   WEBHOOK_SECRET, botVars>>

\* ---------------------------------------------------------------- pipeline

\* What the remote completion API can do with one POST: not answer within
\* the client's timeout, or answer with a status code and a body that is not
\* the expected JSON, carries "content": null, or carries a text.
LLMReplies ==
    {[kind |-> "timeout"]}
    \cup {[kind |-> "http", status_code |-> c, json |-> j] :
             c \in StatusCodes, j \in {"malformed", "null"}}
    \cup {[kind |-> "http", status_code |-> c, json |-> "text", content |-> t] :
             c \in StatusCodes, t \in Texts}

\* call_llm: raises on a timeout, on a status other than 200 and on a body
\* without choices[0].message.content; returns the content otherwise.
call_llm(messages, reply) ==
    IF reply.kind = "timeout"
    THEN [raised |-> TRUE, str |-> "ReadTimeout"]
    ELSE IF reply.status_code # HTTP_OK
    THEN [raised |-> TRUE, str |-> "r.text"]
    ELSE IF reply.json = "malformed"
    THEN [raised |-> TRUE, str |-> "KeyError"]
    ELSE IF reply.json = "null"
    THEN [raised |-> FALSE, isNone |-> TRUE, text |-> <<>>]
    ELSE [raised |-> FALSE, isNone |-> FALSE, text |-> reply.content]

\* Python's `not code` for code that is None or a str.
Not(v) == v.isNone \/ Len(v.text) = 0

\* The body /generate returns for the outcome of its completion call.
GenerateBody(r) ==
    IF r.raised THEN [error |-> r.str]
    ELSE IF Not(r) THEN [error |-> "Empty response from LLM"]
    ELSE [code |-> r.text]

generate ==
    \E user_id \in Users, text \in Tasks \cup {""}, reply \in LLMReplies :
        LET messages == <<[role |-> "system", content |-> "SYSTEM_PROMPT"],
                          [role |-> "user", content |-> text]>>
            r == call_llm(messages, reply)
        IN  /\ llm_calls' = <<messages>>
            /\ resp' = [op |-> "generate",
                        req |-> [user_id |-> user_id, text |-> text],
                        reply |-> reply,
                        fault |-> r.raised,
                        body |-> GenerateBody(r)]
            /\ UNCHANGED <<storeVars, WEBHOOK_SECRET, botVars>>

\* ----------------------------------------------------------------- webhook

\* The check skipped: no header is ever taken for a mismatch.
SecretMismatchNever(secret, configured) == FALSE

\* secret != WEBHOOK_SECRET
SecretMismatch(secret, configured) == secret # configured

Dispatched == tasks \cup {f.n : f \in finished}

telegram_webhook ==
    \E secret \in SecretValues, valid \in BOOLEAN :
        LET n == Len(webhook_log) + 1
            req == [secret |-> secret, valid |-> valid]
        IN  /\ n <= MaxUpdates
            /\ IF SecretMismatch(secret, WEBHOOK_SECRET)
               THEN /\ resp' = [op |-> "webhook", req |-> req, fault |-> FALSE,
                                body |-> [raised |-> "HTTPException",
                                          status_code |-> HTTP_FORBIDDEN,
                                          detail |-> "Invalid secret"]]
                    /\ webhook_log' = Append(webhook_log,
                            [secret |-> secret, valid |-> valid,
                             answer |-> "HTTPException"])
                    /\ UNCHANGED tasks
               ELSE IF ~valid
               THEN /\ resp' = [op |-> "webhook", req |-> req, fault |-> TRUE,
                                body |-> [raised |-> "Exception"]]
                    /\ webhook_log' = Append(webhook_log,
                            [secret |-> secret, valid |-> valid,
                             answer |-> "Exception"])
                    /\ UNCHANGED tasks
               ELSE /\ tasks' = tasks \cup {n}
                    /\ resp' = [op |-> "webhook", req |-> req, fault |-> FALSE,
                                body |-> [ok |-> TRUE]]
                    /\ webhook_log' = Append(webhook_log,
                            [secret |-> secret, valid |-> valid,
                             answer |-> "ok"])
            /\ UNCHANGED <<storeVars, llm_calls, WEBHOOK_SECRET, finished>>

\* The background task dp.feed_update(bot, update) runs the message handler
\* `start`, whose msg.answer either goes through or raises.
feed_update ==
    \E n \in tasks, ok \in BOOLEAN :
        /\ tasks' = tasks \ {n}
        /\ finished' = finished \cup {[n |-> n, ok |-> ok]}
        /\ UNCHANGED <<storeVars, resp, llm_calls, WEBHOOK_SECRET, webhook_log>>

\* ---------------------------------------------------------- specifications

Init ==
    /\ projects = {}
    /\ sqlite_sequence = 0
    /\ now = 0
    /\ saved = <<>>
    /\ resp = [op |-> "startup", req |-> [none |-> TRUE], fault |-> FALSE,
               body |-> [none |-> TRUE]]
    /\ llm_calls = <<>>
    /\ WEBHOOK_SECRET \in SecretValues
    /\ webhook_log = <<>>
    /\ tasks = {}
    /\ finished = {}

Next ==
    \/ save_project
    \/ list_projects
    \/ get_project
    \/ delete_project
    \/ Tick
    \/ generate
    \/ telegram_webhook
    \/ feed_update

Spec == Init /\ [][Next]_vars

\* The project store alone: the four store handlers and the clock.
StoreNext ==
    \/ save_project
    \/ list_projects
    \/ get_project
    \/ delete_project
    \/ Tick

StoreSpec == Init /\ [][StoreNext]_vars

\* The completion pipeline alone.
PipelineNext == generate

PipelineSpec == Init /\ [][PipelineNext]_vars

\* The bot's webhook alone.
WebhookNext ==
    \/ telegram_webhook
    \/ feed_update

WebhookSpec == Init /\ [][WebhookNext]_vars

\* ------------------------------------------------------------------ claims

\* The entry of the save history that assigned `id`, as the triple that was
\* passed to that save.
TripleOf(e) == [title |-> e.title, task |-> e.task, code |-> e.code]

\* C1: a successful save followed immediately by a listing of the same owner
\* (the storage answering) returns a listing whose first entry is the row
\* just saved, also when another row of the owner carries the same
\* created_at second.
C1_SaveThenListNewestFirst ==
    [][(/\ resp.op = "save" /\ ~resp.fault
        /\ resp'.op = "list" /\ ~resp'.fault
        /\ resp'.req.user_id = resp.req.user_id)
       => (/\ Len(resp'.body.items) > 0
           /\ resp'.body.items[1].id = sqlite_sequence)]_vars

\* C2: every stored row carries exactly the owner and the (title, task, code)
\* of the one save that created it, whatever was saved, listed, fetched or
\* deleted since; and a fetch of a stored id answered by the storage returns
\* exactly that triple.
C2_FetchReturnsSavedTriple ==
    /\ \A r \in projects :
          \E i \in DOMAIN saved :
              /\ saved[i].id = r.id
              /\ saved[i].user_id = r.user_id
              /\ TripleOf(saved[i]) = [title |-> r.title, task |-> r.task,
                                       code |-> r.code]
              /\ \A j \in DOMAIN saved : saved[j].id = r.id => j = i
    /\ (resp.op = "get" /\ ~resp.fault) =>
          \A i \in DOMAIN saved :
              (saved[i].id = resp.req.project_id /\ saved[i].id \in RowIds(projects))
                  => resp.body = TripleOf(saved[i])

\* C2 witness: two projects were saved, one of them has been deleted, and a
\* fetch has just returned the content of the other.
C2_Witness ==
    /\ resp.op = "get" /\ ~resp.fault
    /\ resp.req.project_id \in RowIds(projects)
    /\ "code" \in DOMAIN resp.body
    /\ Len(saved) = 2 /\ Cardinality(projects) = 1

\* C3: a delete naming an existing id with another owner leaves the row in
\* the store; when the storage answers it reports "deleted"; and a fetch of
\* the id afterwards returns the row's content.
C3_DeleteByOtherOwnerKeepsRow ==
    [][\A r \in projects :
          (/\ resp'.op = "delete"
           /\ resp'.req.project_id = r.id
           /\ resp'.req.user_id # r.user_id)
          => (/\ r \in projects'
              /\ (~resp'.fault => resp'.body = [status |-> "deleted"])
              /\ GetResponse(projects', r.id) =
                     [title |-> r.title, task |-> r.task, code |-> r.code])]_vars

\* C3 witness: a delete by another owner has just been answered "deleted"
\* and the row is in the store.
C3_Witness ==
    /\ resp.op = "delete" /\ ~resp.fault
    /\ resp.body = [status |-> "deleted"]
    /\ \E r \in projects :
          r.id = resp.req.project_id /\ r.user_id # resp.req.user_id

\* C4: a delete naming an id that is not in the store leaves the table as it
\* was and, when the storage answers, reports "deleted"; and after any
\* delete, the same delete again changes nothing.
C4_DeleteAbsentIsNoOp ==
    [][(resp'.op = "delete") =>
          (/\ (resp'.req.project_id \notin RowIds(projects)) =>
                  (/\ projects' = projects
                   /\ (~resp'.fault => resp'.body = [status |-> "deleted"]))
           /\ ~resp'.fault =>
                  DeleteWhere(projects', resp'.req.project_id,
                              resp'.req.user_id) = projects')]_vars

\* C4 witness: a delete of an id that was never assigned has just been
\* answered "deleted" while the store holds rows of the requesting owner.
C4_Witness ==
    /\ resp.op = "delete" /\ ~resp.fault
    /\ resp.body = [status |-> "deleted"]
    /\ resp.req.project_id > sqlite_sequence
    /\ \E r \in projects : r.user_id = resp.req.user_id

\* The completion calls of the last /generate that carry a given system prompt.
CallsWith(prompt) ==
    {i \in DOMAIN llm_calls : llm_calls[i][1].content = prompt}

\* C5: /generate first issues an enhancement call (system prompt
\* PROMPT_ENHANCER) and issues the generation call (SYSTEM_PROMPT) only after
\* it, and not at all when the enhancement call failed.
C5_EnhanceBeforeGenerate ==
    resp.op = "generate" =>
        /\ 1 \in CallsWith("PROMPT_ENHANCER")
        /\ \A i \in CallsWith("SYSTEM_PROMPT") : i > 1

\* C6: whenever the completion API or the storage failed while one of the
\* five handlers ran, the handler's return value is an error value, never a
\* value of the shape of a success.
C6_FailuresAreErrorValues ==
    (resp.op \in {"generate", "save", "list", "get", "delete"} /\ resp.fault)
        => "error" \in DOMAIN resp.body

\* A text with nothing but whitespace in it (the empty text included).
IsBlank(t) == \A i \in DOMAIN t : t[i] = " "

\* C7: when the completion API answers 200 with no text, an empty text or a
\* text of whitespace only, /generate returns the empty-response error and
\* not the text under "code".
C7_BlankIsEmptyResponse ==
    (/\ resp.op = "generate"
     /\ resp.reply.kind = "http"
     /\ resp.reply.status_code = HTTP_OK
     /\ \/ resp.reply.json = "null"
        \/ (resp.reply.json = "text" /\ IsBlank(resp.reply.content)))
    => resp.body = [error |-> "Empty response from LLM"]

\* C8: the ids assigned by the successful saves, in the order of the saves,
\* are strictly increasing, whatever was deleted in between.
C8_IdsStrictlyIncrease ==
    \A i, j \in DOMAIN saved : i < j => saved[i].id < saved[j].id

\* C8 witness: the last request was a successful save, and a project saved
\* before it had been deleted by then.
C8_Witness ==
    /\ resp.op = "save" /\ ~resp.fault
    /\ \E i \in 1..(Len(saved) - 1) : saved[i].id \notin RowIds(projects)

\* C9: a listing answered by the storage holds exactly the owner's rows, each
\* once with its title, the later saved before the earlier saved (ids
\* descending), and is empty when the owner has none.
C9_ListIsOwnersRowsNewestFirst ==
    (resp.op = "list" /\ ~resp.fault) =>
        LET items == resp.body.items
            mine == SelectByUser(projects, resp.req.user_id)
        IN  /\ Len(items) = Cardinality(mine)
            /\ \A r \in mine : \E i \in DOMAIN items :
                  items[i] = [id |-> r.id, title |-> r.title]
            /\ \A i, j \in DOMAIN items : i < j => items[i].id > items[j].id

\* C10: an update is handed to the dispatcher only for a request whose
\* secret header equals WEBHOOK_SECRET; a request with another header is
\* answered 403 and dispatches nothing; a well-formed request with the right
\* header is answered ok; and the ok is given while the task it created is
\* still running.
C10_WebhookSecretGate ==
    /\ [](\A n \in DOMAIN webhook_log :
            /\ n \in Dispatched => webhook_log[n].secret = WEBHOOK_SECRET
            /\ webhook_log[n].secret # WEBHOOK_SECRET =>
                  (n \notin Dispatched /\ webhook_log[n].answer = "HTTPException")
            /\ (webhook_log[n].secret = WEBHOOK_SECRET /\ webhook_log[n].valid) =>
                  (n \in Dispatched /\ webhook_log[n].answer = "ok")
            /\ webhook_log[n].answer = "ok" => n \in Dispatched)
    /\ [](resp.op = "webhook" =>
            IF resp.req.secret # WEBHOOK_SECRET
            THEN resp.body = [raised |-> "HTTPException",
                              status_code |-> HTTP_FORBIDDEN,
                              detail |-> "Invalid secret"]
            ELSE resp.req.valid => resp.body = [ok |-> TRUE])
    /\ [][Len(webhook_log') > Len(webhook_log) =>
            (webhook_log'[Len(webhook_log')].answer = "ok"
                => Len(webhook_log') \in tasks')]_vars

\* C10 witness: a request with a wrong header was refused, a later one with
\* the right header has been answered ok, and its task has not finished.
C10_Witness ==
    /\ Len(webhook_log) = 2
    /\ webhook_log[1].secret # WEBHOOK_SECRET
    /\ webhook_log[1].answer = "HTTPException"
    /\ resp.op = "webhook" /\ resp.body = [ok |-> TRUE]
    /\ 2 \in tasks /\ Dispatched = {2}

====
